---- MODULE Spec2Model ----
(***************************************************************************)
(* A model of mainApp.py: the DisplayManager render loop (display_loop),   *)
(* the webhook handler of OrderWebApp (show_lightning_animation followed   *)
(* by set_new_order), DisplayManager.stop and the screen builder           *)
(* _create_order_screens.                                                  *)
(*                                                                         *)
(* The render loop runs in its own thread and the handler in a server      *)
(* thread; the code takes no lock, so every read and every write of a      *)
(* DisplayManager field is a step of its own and the two threads           *)
(* interleave between any two of them.  Lines that touch only locals are   *)
(* folded into the neighbouring step.                                      *)
(*                                                                         *)
(* Time is counted in units of 100 ms, the sleep of a render tick (line     *)
(* 158).  Computation takes no time: the clock advances only while the     *)
(* render loop is blocked in time.sleep or ended and the handler is idle   *)
(* or asleep.  Only differences of time.time() are ever compared, so the   *)
(* model keeps state_elapsed = time.time() - self.state_start_time instead *)
(* of the absolute clock, saturating just above the largest value it is    *)
(* compared with.  The handler's own clock readings (lines 168-169, 175,   *)
(* 180) are not tracked: its sleeps last any time and its animation runs   *)
(* one or more iterations, which covers every duration.                    *)
(***************************************************************************)
EXTENDS Integers, Sequences, FiniteSets, TLC

VARIABLES
    \* DisplayManager fields (lines 88-99)
    display_state, state_elapsed, scroll_position, screens, screen_index,
    cycles_remaining, order_data, running,
    \* display_loop thread: position, remaining sleep, locals
    loop_pc, loop_sleep, max_width, scroll_limit, new_scroll, from_index,
    \* webhook handler thread: position, remaining sleep, locals
    h_pc, h_data, first_frame, received,
    \* history: why the loop thread ended, frames committed after stop(),
    \* wraps of screen_index since the last set_new_order returned (-1
    \* before the first)
    crash_cause, loop_commits_after_stop, alert_frame_late,
    alert_late_commits, wraps_since_order,
    \* _create_order_screens applied on its own (SpecBuild)
    b_data, b_screens, b_pc

session == <<display_state, state_elapsed, scroll_position, screens,
             screen_index, cycles_remaining, order_data, running>>
loopv   == <<loop_pc, loop_sleep, max_width, scroll_limit, new_scroll, from_index>>
handv   == <<h_pc, h_data, first_frame, received>>
histv   == <<crash_cause, loop_commits_after_stop, alert_frame_late,
             alert_late_commits, wraps_since_order>>
buildv  == <<b_data, b_screens, b_pc>>
vars    == <<session, loopv, handv, histv, buildv>>

----------------------------------------------------------------------------
(* Program constants.  Durations are in units of 100 ms.                   *)

UnitsPerSecond == 10
CELEBRATION == "CELEBRATION"
ORDER_INFO  == "ORDER_INFO"
IDLE        == "IDLE"
DeviceWidth == 128
ScrollPadding == 156
ScrollStep == 10
CelebrationDuration == 3 * UnitsPerSecond
ScreenTimeout == 8 * UnitsPerSecond
OrderCycles == 2
TickSleep == UnitsPerSecond \div 10
lines_per_screen == 2

(* Saturation point of the elapsed-time reading.                           *)
Horizon == ScreenTimeout + 1
Min(a, b) == IF a < b THEN a ELSE b

(* Bounds of the model.                                                    *)
MaxItems == 3
MaxStopOrders == 1
MaxLateCommits == 2

----------------------------------------------------------------------------
(* _create_order_screens, lines 232-257.                                   *)

RECURSIVE SumQuantities(_)
SumQuantities(items) ==
    IF items = <<>> THEN 0
    ELSE Head(items).quantity + SumQuantities(Tail(items))

screen_data(data) ==
    << "Order " \o data.name,
       "Total: " \o data.total_price \o " " \o data.currency,
       "Items: " \o ToString(SumQuantities(data.line_items)),
       "Customer:\n" \o data.customer.first_name >>
    \o [i \in 1..Len(data.line_items) |-> "Product:\n" \o data.line_items[i].name]

RECURSIVE JoinLines(_)
JoinLines(temp) ==
    IF Len(temp) = 0 THEN ""
    ELSE IF Len(temp) = 1 THEN temp[1]
    ELSE temp[1] \o "\n" \o JoinLines(Tail(temp))

(* The grouping loop of lines 249-253: acc is <<screens, temp>>.           *)
RECURSIVE GroupLines(_, _, _)
GroupLines(lines, scr, temp) ==
    IF lines = <<>> THEN <<scr, temp>>
    ELSE LET t == Append(temp, Head(lines))
         IN IF Len(t) = lines_per_screen
            THEN GroupLines(Tail(lines), Append(scr, JoinLines(t)), <<>>)
            ELSE GroupLines(Tail(lines), scr, t)

(* create_order_screens without lines 254-255: a trailing single entry is  *)
(* lost.                                                                   *)
create_order_screens_no_tail(data) ==
    GroupLines(screen_data(data), <<>>, <<>>)[1]

create_order_screens(data) ==
    LET r == GroupLines(screen_data(data), <<>>, <<>>)
    IN IF r[2] # <<>> THEN Append(r[1], JoinLines(r[2])) ELSE r[1]

----------------------------------------------------------------------------
(* The payloads the webhook delivers in the model: two orders, and a       *)
(* payload without the 'line_items' key, on which line 236 raises          *)
(* KeyError.  OrderB's product entry is 56 characters long, which makes    *)
(* its scroll_limit (340) a multiple of the scroll step.                   *)

OrderA == [name |-> "#1", total_price |-> "5", currency |-> "USD",
           customer |-> [first_name |-> "Al"], line_items |-> <<>>]
OrderB == [name |-> "#2", total_price |-> "9", currency |-> "USD",
           customer |-> [first_name |-> "Bo"],
           line_items |->
              << [name |-> "Extra Large Deluxe Stainless Steel Widget Mk II",
                  quantity |-> 2] >>]
Orders == {OrderA, OrderB}
OrderBad == [name |-> "#3", total_price |-> "1", currency |-> "USD",
             customer |-> [first_name |-> "Cy"]]
Payloads == Orders \cup {OrderBad}

(* The keys lines 236-242 read are all there.                              *)
WellFormed(data) ==
    {"name", "total_price", "currency", "customer", "line_items"}
        \subseteq DOMAIN data
NoOrder == [name |-> "", total_price |-> "", currency |-> "",
            customer |-> [first_name |-> ""], line_items |-> <<>>]

----------------------------------------------------------------------------
(* DisplayManager.__init__ (lines 88-99) and start (line 105); no request  *)
(* has arrived yet.                                                        *)

Init ==
    /\ display_state = IDLE
    /\ state_elapsed = 0
    /\ scroll_position = 0
    /\ screens = <<>>
    /\ screen_index = 0
    /\ cycles_remaining = 0
    /\ order_data = NoOrder
    /\ running = TRUE
    /\ loop_pc = "while" /\ loop_sleep = 0
    /\ max_width = 0 /\ scroll_limit = 0 /\ new_scroll = 0 /\ from_index = 0
    /\ h_pc = "idle" /\ h_data = NoOrder /\ first_frame = FALSE /\ received = 0
    /\ crash_cause = "none"
    /\ loop_commits_after_stop = 0
    /\ alert_frame_late = FALSE
    /\ alert_late_commits = 0
    /\ wraps_since_order = -1
    /\ b_data = NoOrder /\ b_screens = <<>> /\ b_pc = "off"

----------------------------------------------------------------------------
(* display_loop, lines 113-158.  loop_pc names the line the thread is at;  *)
(* from "l119" to "commit" the thread is inside the canvas block.          *)
(* screen_index and cycles_remaining are read and written by this thread   *)
(* alone, so a line that touches only them is folded into the step before  *)
(* it.                                                                     *)

LoopCanvasPcs ==
    {"l119", "l122", "l123", "l124", "l128", "l129", "l130", "l135", "l137",
     "l140", "l143", "l143b", "l145", "l146", "l147", "l151", "l152", "l154",
     "commit"}

LoopInCanvas == loop_pc \in LoopCanvasPcs

LoopEnded == loop_pc \in {"exited", "crashed"}

(* The locals of a tick are dead once its frame is left.                   *)
ClearLocals ==
    /\ max_width' = 0 /\ scroll_limit' = 0 /\ new_scroll' = 0 /\ from_index' = 0

KeepLocals == UNCHANGED <<max_width, scroll_limit, new_scroll, from_index>>

LoopGoto(pc) ==
    /\ loop_pc' = pc
    /\ UNCHANGED <<loop_sleep, handv, buildv>>

(* An exception leaves the canvas block without committing the frame and   *)
(* ends display_loop: nothing in it catches exceptions.                    *)
LoopRaise(cause) ==
    /\ loop_pc' = "crashed"
    /\ crash_cause' = cause
    /\ ClearLocals
    /\ UNCHANGED <<loop_sleep, session, handv, buildv, loop_commits_after_stop,
                   alert_frame_late, alert_late_commits, wraps_since_order>>

IndexOk == screen_index < Len(screens)

(* LoopWhile with the test of the stop flag left out ("while True").       *)
LoopWhileIgnoringStop ==
    /\ loop_pc = "while" \/ (loop_pc = "sleep" /\ loop_sleep = 0)
    /\ LoopGoto("l119")
    /\ KeepLocals
    /\ UNCHANGED <<session, histv>>

(* Line 117, folded with the end of time.sleep(0.1) of line 158 and with   *)
(* the canvas entry of line 118.                                           *)
LoopWhile ==
    /\ loop_pc = "while" \/ (loop_pc = "sleep" /\ loop_sleep = 0)
    /\ IF running THEN LoopGoto("l119") ELSE LoopGoto("exited")
    /\ KeepLocals
    /\ UNCHANGED <<session, histv>>

(* Line 119.                                                               *)
LoopIfCelebration ==
    /\ loop_pc = "l119"
    /\ IF display_state = CELEBRATION THEN LoopGoto("l122") ELSE LoopGoto("l128")
    /\ KeepLocals
    /\ UNCHANGED <<session, histv>>

(* Lines 120-122: draw the banner, then read state_start_time.             *)
LoopCelebrationTimeout ==
    /\ loop_pc = "l122"
    /\ IF state_elapsed > CelebrationDuration
       THEN LoopGoto("l123") ELSE LoopGoto("commit")
    /\ KeepLocals
    /\ UNCHANGED <<session, histv>>

(* Line 123.                                                               *)
LoopSetOrderInfo ==
    /\ loop_pc = "l123"
    /\ display_state' = ORDER_INFO
    /\ LoopGoto("l124")
    /\ KeepLocals
    /\ UNCHANGED <<state_elapsed, scroll_position, screens, screen_index,
                   cycles_remaining, order_data, running, histv>>

(* Lines 124-126.                                                          *)
LoopStartCycles ==
    /\ loop_pc = "l124"
    /\ state_elapsed' = 0
    /\ screen_index' = 0
    /\ cycles_remaining' = OrderCycles
    /\ LoopGoto("commit")
    /\ KeepLocals
    /\ UNCHANGED <<display_state, scroll_position, screens, order_data,
                   running, histv>>

(* Line 128.                                                               *)
LoopElifOrderInfo ==
    /\ loop_pc = "l128"
    /\ IF display_state = ORDER_INFO THEN LoopGoto("l129") ELSE LoopGoto("l154")
    /\ KeepLocals
    /\ UNCHANGED <<session, histv>>

(* Line 129.                                                               *)
LoopIfScreens ==
    /\ loop_pc = "l129"
    /\ IF screens # <<>> THEN LoopGoto("l130") ELSE LoopGoto("commit")
    /\ KeepLocals
    /\ UNCHANGED <<session, histv>>

(* Lines 130-134: len(self.screens[self.screen_index]) raises IndexError   *)
(* when the index is not one of the list; then the branch of line 134.     *)
LoopMeasure ==
    /\ loop_pc = "l130"
    /\ IF IndexOk
       THEN /\ max_width' = Len(screens[screen_index + 1])
            /\ scroll_limit' = Len(screens[screen_index + 1]) + DeviceWidth + ScrollPadding
            /\ IF screen_index > 1 THEN LoopGoto("l135") ELSE LoopGoto("l140")
            /\ UNCHANGED <<new_scroll, from_index, session, histv>>
       ELSE LoopRaise("index")

(* Line 135 and the read half of line 137: the screen is read again for    *)
(* drawing, then scroll_position is read and the new value computed.       *)
LoopScrollRead ==
    /\ loop_pc = "l135"
    /\ IF IndexOk
       THEN /\ new_scroll' = (scroll_position + ScrollStep) % scroll_limit
            /\ LoopGoto("l137")
            /\ UNCHANGED <<max_width, scroll_limit, from_index, session, histv>>
       ELSE LoopRaise("index")

(* The write half of line 137.                                             *)
LoopScrollWrite ==
    /\ loop_pc = "l137"
    /\ scroll_position' = new_scroll
    /\ LoopGoto("l143")
    /\ KeepLocals
    /\ UNCHANGED <<display_state, state_elapsed, screens, screen_index,
                   cycles_remaining, order_data, running, histv>>

(* Line 140.                                                               *)
LoopDrawStatic ==
    /\ loop_pc = "l140"
    /\ IF IndexOk
       THEN /\ LoopGoto("l143")
            /\ KeepLocals
            /\ UNCHANGED <<session, histv>>
       ELSE LoopRaise("index")

(* Line 144, taken when the test of line 143 holds.  from_index remembers  *)
(* the index the advance started from.                                     *)
LoopNextScreen ==
    /\ screen_index' = screen_index + 1
    /\ from_index' = screen_index
    /\ LoopGoto("l145")
    /\ UNCHANGED <<max_width, scroll_limit, new_scroll>>
    /\ UNCHANGED <<display_state, state_elapsed, scroll_position, screens,
                   cycles_remaining, order_data, running, histv>>

LoopStay(pc) ==
    /\ LoopGoto(pc)
    /\ KeepLocals
    /\ UNCHANGED <<session, histv>>

(* Line 143, left operand of "or": the time-out.                           *)
LoopAdvanceByTime ==
    /\ loop_pc = "l143"
    /\ IF state_elapsed > ScreenTimeout THEN LoopNextScreen ELSE LoopStay("l143b")

(* Line 143, right operand of "or", evaluated when the left is false.      *)
LoopAdvanceByWidth ==
    /\ loop_pc = "l143b"
    /\ IF scroll_position >= scroll_limit + max_width
       THEN LoopNextScreen ELSE LoopStay("commit")

(* LoopResetScroll with the reset forgotten.                               *)
LoopResetScrollForgotten ==
    /\ loop_pc = "l145"
    /\ LoopGoto("l146")
    /\ KeepLocals
    /\ UNCHANGED <<session, histv>>

(* Line 145.                                                               *)
LoopResetScroll ==
    /\ loop_pc = "l145"
    /\ scroll_position' = 0
    /\ LoopGoto("l146")
    /\ KeepLocals
    /\ UNCHANGED <<display_state, state_elapsed, screens, screen_index,
                   cycles_remaining, order_data, running, histv>>

(* Line 146.                                                               *)
LoopRestartTimer ==
    /\ loop_pc = "l146"
    /\ state_elapsed' = 0
    /\ LoopGoto("l147")
    /\ KeepLocals
    /\ UNCHANGED <<display_state, scroll_position, screens, screen_index,
                   cycles_remaining, order_data, running, histv>>

(* Lines 147-150: past the end of the list the index wraps to 0 and one    *)
(* cycle is counted off.                                                   *)
LoopWrap ==
    /\ loop_pc = "l147"
    /\ IF screen_index >= Len(screens)
       THEN /\ screen_index' = 0
            /\ cycles_remaining' = cycles_remaining - 1
            /\ wraps_since_order' = IF wraps_since_order < 0 THEN wraps_since_order
                                     ELSE wraps_since_order + 1
            /\ IF cycles_remaining - 1 <= 0 THEN LoopGoto("l151") ELSE LoopGoto("commit")
       ELSE /\ LoopGoto("commit")
            /\ UNCHANGED <<screen_index, cycles_remaining, wraps_since_order>>
    /\ KeepLocals
    /\ UNCHANGED <<display_state, state_elapsed, scroll_position, screens,
                   order_data, running>>
    /\ UNCHANGED <<crash_cause, loop_commits_after_stop, alert_frame_late,
                   alert_late_commits>>

(* Line 151.                                                               *)
LoopSetIdle ==
    /\ loop_pc = "l151"
    /\ display_state' = IDLE
    /\ LoopGoto("l152")
    /\ KeepLocals
    /\ UNCHANGED <<state_elapsed, scroll_position, screens, screen_index,
                   cycles_remaining, order_data, running, histv>>

(* Line 152.                                                               *)
LoopIdleTimer ==
    /\ loop_pc = "l152"
    /\ state_elapsed' = 0
    /\ LoopGoto("commit")
    /\ KeepLocals
    /\ UNCHANGED <<display_state, scroll_position, screens, screen_index,
                   cycles_remaining, order_data, running, histv>>

(* LoopElifIdle that restarts the state timer on every idle tick.          *)
LoopElifIdleRestartingTimer ==
    /\ loop_pc = "l154"
    /\ state_elapsed' = 0
    /\ LoopGoto("commit")
    /\ KeepLocals
    /\ UNCHANGED <<display_state, scroll_position, screens, screen_index,
                   cycles_remaining, order_data, running, histv>>

(* Lines 154-156: in IDLE the device is cleared; no field is written.      *)
(* When display_state is none of the three any more, nothing is drawn.     *)
LoopElifIdle ==
    /\ loop_pc = "l154"
    /\ LoopStay("commit")

(* Leaving the canvas block (line 118) flushes the frame to the device,    *)
(* then line 158 sleeps 0.1 s.                                             *)
LoopCommit ==
    /\ loop_pc = "commit"
    /\ loop_pc' = "sleep"
    /\ loop_sleep' = TickSleep
    /\ ClearLocals
    /\ loop_commits_after_stop' =
          IF running THEN loop_commits_after_stop
          ELSE Min(loop_commits_after_stop + 1, MaxLateCommits)
    /\ UNCHANGED <<session, handv, buildv, crash_cause, alert_frame_late,
                   alert_late_commits, wraps_since_order>>

(* The flush fails (display I/O error): the exception leaves display_loop. *)
LoopCommitFails ==
    /\ loop_pc = "commit"
    /\ LoopRaise("io")

----------------------------------------------------------------------------
(* The webhook handler, lines 297-315: show_lightning_animation(2) and     *)
(* then set_new_order(data).  Requests are served one at a time.  The LED  *)
(* thread of line 302 shares nothing with the display and is left out.     *)
(* Display I/O faults are injected in the render loop only.                *)

AlertPcs == {"a169", "a171", "a175", "a178", "a180"}
AlertActive == h_pc \in AlertPcs
AlertInCanvas == h_pc \in {"a171", "a178"}

HandGoto(pc) ==
    /\ h_pc' = pc
    /\ UNCHANGED <<loopv, buildv>>

(* Lines 298-310 and 168: a request arrives while the server runs.  The    *)
(* payload is not looked at before line 313, so the model draws it there   *)
(* (AlertDone).  The model delivers requests only while the render loop    *)
(* is alive: after it has ended nothing shows an order.                    *)
Arrive ==
    /\ h_pc = "idle"
    /\ running
    /\ loop_pc # "crashed"
    /\ first_frame' = TRUE
    /\ HandGoto("a169")
    /\ UNCHANGED <<h_data, session, histv>>

(* Receive with line 310 left out: the handler goes straight to line 313. *)
ReceiveWithoutAlert ==
    /\ h_pc = "idle"
    /\ running
    /\ loop_pc # "crashed"
    /\ first_frame' = TRUE
    /\ HandGoto("s187")
    /\ h_data' \in Orders
    /\ UNCHANGED <<received, session, histv>>

(* Any number of requests, one after the other.                            *)
Receive ==
    /\ Arrive
    /\ UNCHANGED received

(* At most MaxStopOrders requests (SpecStop).                              *)
ReceiveCounted ==
    /\ Arrive
    /\ received < MaxStopOrders
    /\ received' = received + 1

(* Line 169 is reached from line 168 and from the sleep of line 180.       *)
AtAlertWhile == h_pc \in {"a169", "a180"}

(* Lines 169-171: the loop test holds and the lightning frame is opened.   *)
AlertFrameOpen ==
    /\ AtAlertWhile
    /\ HandGoto("a171")
    /\ first_frame' = FALSE
    /\ alert_frame_late' = ~running
    /\ UNCHANGED <<h_data, received, session>>
    /\ UNCHANGED <<crash_cause, loop_commits_after_stop, alert_late_commits,
                   wraps_since_order>>

LateCommit ==
    IF alert_frame_late THEN Min(alert_late_commits + 1, MaxLateCommits)
    ELSE alert_late_commits

(* AlertFrameCommit that also rewinds the scrolling text.                  *)
AlertFrameCommitRewinding ==
    /\ h_pc = "a171"
    /\ HandGoto("a175")
    /\ alert_late_commits' = LateCommit
    /\ scroll_position' = 0
    /\ UNCHANGED <<h_data, first_frame, received>>
    /\ UNCHANGED <<display_state, state_elapsed, screens, screen_index,
                   cycles_remaining, order_data, running>>
    /\ UNCHANGED <<crash_cause, loop_commits_after_stop, alert_frame_late,
                   wraps_since_order>>

(* Lines 172-175: the frame is drawn and flushed, then sleep 0.1 s.        *)
AlertFrameCommit ==
    /\ h_pc = "a171"
    /\ HandGoto("a175")
    /\ alert_late_commits' = LateCommit
    /\ UNCHANGED <<h_data, first_frame, received, session>>
    /\ UNCHANGED <<crash_cause, loop_commits_after_stop, alert_frame_late,
                   wraps_since_order>>

(* Line 178: the blank frame is opened once the sleep is over.             *)
AlertFlashOpen ==
    /\ h_pc = "a175"
    /\ HandGoto("a178")
    /\ alert_frame_late' = ~running
    /\ UNCHANGED <<h_data, first_frame, received, session>>
    /\ UNCHANGED <<crash_cause, loop_commits_after_stop, alert_late_commits,
                   wraps_since_order>>

(* Lines 179-180: the blank frame is flushed, then sleep 0.05 s.           *)
AlertFlashCommit ==
    /\ h_pc = "a178"
    /\ HandGoto("a180")
    /\ alert_late_commits' = LateCommit
    /\ UNCHANGED <<h_data, first_frame, received, session>>
    /\ UNCHANGED <<crash_cause, loop_commits_after_stop, alert_frame_late,
                   wraps_since_order>>

(* Line 169 with the loop test false, which it is not on first reaching    *)
(* it (duration is 2 s): the animation returns and line 313 calls          *)
(* set_new_order(data) with the request's payload o.                       *)
AlertDone(o) ==
    /\ AtAlertWhile
    /\ ~first_frame
    /\ HandGoto("s187")
    /\ h_data' = o
    /\ UNCHANGED <<first_frame, received, session, histv>>

(* set_new_order with lines 188 and 191 exchanged: display_state is        *)
(* written before the screens are built.                                   *)
set_new_order_state_first ==
    /\ \/ /\ h_pc = "s187"
          /\ order_data' = h_data
          /\ HandGoto("s188")
          /\ UNCHANGED <<screens, scroll_position, display_state, state_elapsed,
                         wraps_since_order>>
       \/ /\ h_pc = "s188"
          /\ display_state' = CELEBRATION
          /\ HandGoto("s189")
          /\ UNCHANGED <<order_data, screens, scroll_position, state_elapsed,
                         wraps_since_order>>
       \/ /\ h_pc = "s189"
          /\ scroll_position' = 0
          /\ HandGoto("s191")
          /\ UNCHANGED <<order_data, screens, display_state, state_elapsed,
                         wraps_since_order>>
       \/ /\ h_pc = "s191"
          /\ IF WellFormed(h_data)
             THEN /\ screens' = create_order_screens(h_data)
                  /\ HandGoto("s192")
             ELSE /\ UNCHANGED screens
                  /\ HandGoto("h500")
          /\ UNCHANGED <<order_data, scroll_position, display_state, state_elapsed,
                         wraps_since_order>>
       \/ /\ h_pc = "s192"
          /\ state_elapsed' = 0
          /\ wraps_since_order' = 0
          /\ HandGoto("h315")
          /\ UNCHANGED <<order_data, screens, scroll_position, display_state>>
    /\ UNCHANGED <<screen_index, cycles_remaining, running>>
    /\ UNCHANGED <<h_data, first_frame, received>>
    /\ UNCHANGED <<crash_cause, loop_commits_after_stop, alert_frame_late,
                   alert_late_commits>>

(* set_new_order, lines 187-192, one field write each.  When line 188     *)
(* raises (line 236 on a payload without its keys) the exception leaves    *)
(* set_new_order and the handler, and the server answers 500.              *)
set_new_order ==
    /\ \/ /\ h_pc = "s187"
          /\ order_data' = h_data
          /\ HandGoto("s188")
          /\ UNCHANGED <<screens, scroll_position, display_state, state_elapsed,
                         wraps_since_order>>
       \/ /\ h_pc = "s188"
          /\ IF WellFormed(h_data)
             THEN /\ screens' = create_order_screens(h_data)
                  /\ HandGoto("s189")
             ELSE /\ UNCHANGED screens
                  /\ HandGoto("h500")
          /\ UNCHANGED <<order_data, scroll_position, display_state, state_elapsed,
                         wraps_since_order>>
       \/ /\ h_pc = "s189"
          /\ scroll_position' = 0
          /\ HandGoto("s191")
          /\ UNCHANGED <<order_data, screens, display_state, state_elapsed,
                         wraps_since_order>>
       \/ /\ h_pc = "s191"
          /\ display_state' = CELEBRATION
          /\ HandGoto("s192")
          /\ UNCHANGED <<order_data, screens, scroll_position, state_elapsed,
                         wraps_since_order>>
       \/ /\ h_pc = "s192"
          /\ state_elapsed' = 0
          /\ wraps_since_order' = 0
          /\ HandGoto("h315")
          /\ UNCHANGED <<order_data, screens, scroll_position, display_state>>
    /\ UNCHANGED <<screen_index, cycles_remaining, running>>
    /\ UNCHANGED <<h_data, first_frame, received>>
    /\ UNCHANGED <<crash_cause, loop_commits_after_stop, alert_frame_late,
                   alert_late_commits>>

(* Line 315: the handler answers 200.                                      *)
Respond ==
    /\ h_pc = "h315"
    /\ HandGoto("idle")
    /\ h_data' = NoOrder
    /\ UNCHANGED <<first_frame, received, session, histv>>

(* The handler was left by an exception: the server answers 500.           *)
RespondError ==
    /\ h_pc = "h500"
    /\ HandGoto("idle")
    /\ h_data' = NoOrder
    /\ UNCHANGED <<first_frame, received, session, histv>>

----------------------------------------------------------------------------
(* DisplayManager.stop, line 111, called from the main thread (line 351).  *)
stop ==
    /\ running
    /\ running' = FALSE
    /\ UNCHANGED <<display_state, state_elapsed, scroll_position, screens,
                   screen_index, cycles_remaining, order_data>>
    /\ UNCHANGED <<loopv, handv, histv, buildv>>

----------------------------------------------------------------------------
(* 100 ms pass.  display_loop is the only reader of state_start_time, so   *)
(* once it has ended the age of state_start_time is no longer advanced.    *)

LoopWaiting ==
    \/ LoopEnded
    \/ loop_pc = "sleep" /\ loop_sleep > 0

HandlerWaiting == h_pc \in {"idle", "a175", "a180"}

AdvanceTime ==
    /\ LoopWaiting
    /\ HandlerWaiting
    /\ loop_sleep' = IF loop_sleep > 0 THEN loop_sleep - 1 ELSE 0
    /\ state_elapsed' = IF LoopEnded THEN state_elapsed
                        ELSE Min(state_elapsed + 1, Horizon)
    /\ UNCHANGED <<display_state, scroll_position, screens, screen_index,
                   cycles_remaining, order_data, running>>
    /\ UNCHANGED <<loop_pc, max_width, scroll_limit, new_scroll, from_index>>
    /\ UNCHANGED <<handv, histv, buildv>>

----------------------------------------------------------------------------
Steps ==
    \/ LoopWhile
    \/ LoopIfCelebration
    \/ LoopCelebrationTimeout
    \/ LoopSetOrderInfo
    \/ LoopStartCycles
    \/ LoopElifOrderInfo
    \/ LoopIfScreens
    \/ LoopMeasure
    \/ LoopScrollRead
    \/ LoopScrollWrite
    \/ LoopDrawStatic
    \/ LoopAdvanceByTime
    \/ LoopAdvanceByWidth
    \/ LoopResetScroll
    \/ LoopRestartTimer
    \/ LoopWrap
    \/ LoopSetIdle
    \/ LoopIdleTimer
    \/ LoopElifIdle
    \/ LoopCommit
    \/ LoopCommitFails
    \/ AlertFrameOpen
    \/ AlertFrameCommit
    \/ AlertFlashOpen
    \/ AlertFlashCommit
    \/ \E o \in Payloads : AlertDone(o)
    \/ set_new_order
    \/ Respond
    \/ RespondError
    \/ AdvanceTime

(* The render loop and the webhook handler, with any number of requests.   *)
Next == Steps \/ Receive

Spec == Init /\ [][Next]_vars

(* The same program with the main thread's stop() (line 351), for a        *)
(* bounded number of requests.                                             *)
NextStop == Steps \/ ReceiveCounted \/ stop

SpecStop == Init /\ [][NextStop]_vars

----------------------------------------------------------------------------
(* The program with a display that does not fail and MaxLiveOrders         *)
(* requests, under fair scheduling: the render thread and the handler      *)
(* thread each keep running while they have a step to take, and time does  *)
(* not stop: the sleeps of lines 158, 175 and 180 each last a positive     *)
(* time, so the clock advances again and again however the animation's     *)
(* frames fall between two ticks.                                          *)

MaxLiveOrders == 2

LoopStep ==
    \/ LoopWhile
    \/ LoopIfCelebration
    \/ LoopCelebrationTimeout
    \/ LoopSetOrderInfo
    \/ LoopStartCycles
    \/ LoopElifOrderInfo
    \/ LoopIfScreens
    \/ LoopMeasure
    \/ LoopScrollRead
    \/ LoopScrollWrite
    \/ LoopDrawStatic
    \/ LoopAdvanceByTime
    \/ LoopAdvanceByWidth
    \/ LoopResetScroll
    \/ LoopRestartTimer
    \/ LoopWrap
    \/ LoopSetIdle
    \/ LoopIdleTimer
    \/ LoopElifIdle
    \/ LoopCommit

HandlerStep ==
    \/ AlertFrameOpen
    \/ AlertFrameCommit
    \/ AlertFlashOpen
    \/ AlertFlashCommit
    \/ \E o \in Payloads : AlertDone(o)
    \/ set_new_order
    \/ Respond
    \/ RespondError

ReceiveLive ==
    /\ Arrive
    /\ received < MaxLiveOrders
    /\ received' = received + 1

NextLive == LoopStep \/ HandlerStep \/ AdvanceTime \/ ReceiveLive

SpecLive ==
    /\ Init /\ [][NextLive]_vars
    /\ WF_vars(LoopStep) /\ WF_vars(HandlerStep) /\ SF_vars(AdvanceTime)

----------------------------------------------------------------------------
(* _create_order_screens applied to one order drawn from BuildInputs.      *)

ItemNames == {"W", "Gadget"}
Quantities == {0, 3}
Items == [name : ItemNames, quantity : Quantities]

ItemLists == UNION {[1..n -> Items] : n \in 0..MaxItems}

BuildInputs ==
    [name : {"#1001", ""}, total_price : {"42.50"}, currency : {"USD"},
     customer : [first_name : {"Alice"}], line_items : ItemLists]

InitBuild ==
    /\ display_state = IDLE
    /\ state_elapsed = 0
    /\ scroll_position = 0
    /\ screens = <<>>
    /\ screen_index = 0
    /\ cycles_remaining = 0
    /\ order_data = NoOrder
    /\ running = TRUE
    /\ loop_pc = "while" /\ loop_sleep = 0
    /\ max_width = 0 /\ scroll_limit = 0 /\ new_scroll = 0 /\ from_index = 0
    /\ h_pc = "idle" /\ h_data = NoOrder /\ first_frame = FALSE /\ received = 0
    /\ crash_cause = "none"
    /\ loop_commits_after_stop = 0
    /\ alert_frame_late = FALSE
    /\ alert_late_commits = 0
    /\ wraps_since_order = -1
    /\ b_data \in BuildInputs /\ b_screens = <<>> /\ b_pc = "call"

Build ==
    /\ b_pc = "call"
    /\ b_screens' = create_order_screens(b_data)
    /\ b_pc' = "return"
    /\ UNCHANGED <<b_data, session, loopv, handv, histv>>

NextBuild == Build

SpecBuild == InitBuild /\ [][NextBuild]_vars

----------------------------------------------------------------------------
(* Claims.                                                                 *)

(* C1: once set_new_order has returned (the handler is at its return, line *)
(* 315, and no time has passed), the session is in CELEBRATION with        *)
(* screen_index = 0, scroll_position = 0 and a fresh state_start_time,     *)
(* whatever step of a render tick was in flight.                           *)
C1_NewOrderResetsSession ==
    h_pc = "h315" =>
        /\ display_state = CELEBRATION
        /\ screen_index = 0
        /\ scroll_position = 0
        /\ state_elapsed = 0

(* The render loop is between line 123 and line 125, or between line 144   *)
(* and line 148: screen_index is about to be reset or wrapped by the tick  *)
(* itself.                                                                 *)
MidTransition == loop_pc \in {"l124", "l145", "l146", "l147"}

(* C2: whenever the state is ORDER_INFO and screens is non-empty (and the  *)
(* tick is not in the middle of its own transition), screen_index is an    *)
(* index of screens, and the render loop never reads screens[screen_index] *)
(* with an index that is not one of the list.                              *)
C2_IndexAlwaysValid ==
    /\ (display_state = ORDER_INFO /\ screens # <<>> /\ ~MidTransition) => IndexOk
    /\ crash_cause # "index"

(* C3: a frame of the render loop and a frame of the alert animation are   *)
(* never open together, and the render loop opens no frame between the     *)
(* start and the end of an alert animation.                                *)
C3_SurfaceExclusive ==
    /\ [](~(LoopInCanvas /\ AlertInCanvas))
    /\ [][(~LoopInCanvas /\ LoopInCanvas') => ~AlertActive]_vars

(* C4: after a NewOrder the session is IDLE only when exactly OrderCycles  *)
(* traversals of the screen list have been completed since that NewOrder   *)
(* returned, and once they have been completed and the tick is over the    *)
(* session is IDLE.                                                        *)
C4_IdleIffTwoTraversals ==
    /\ (display_state = IDLE /\ wraps_since_order >= 0)
          => wraps_since_order = OrderCycles
    /\ (wraps_since_order = OrderCycles /\ loop_pc = "sleep"
           /\ h_pc \notin {"s187", "s188", "s189", "s191", "s192"})
          => display_state = IDLE

(* C5: a failure of a frame's flush does not end the render loop.          *)
C5_LoopSurvivesFrameFailure ==
    ~(loop_pc = "crashed" /\ crash_cause = "io")

(* C6, as stated: after stop() at most the render frame in flight is       *)
(* committed and no frame opened after stop() is committed by anyone, the  *)
(* alert animation included.                                               *)
C6_NoCommitAfterStop ==
    /\ loop_commits_after_stop <= 1
    /\ alert_late_commits = 0

(* C6, amended: after stop() the render loop commits at most the frame in  *)
(* flight and never opens another one; the alert animation is not stopped. *)
C6_LoopStopsWithinOneTick ==
    /\ loop_commits_after_stop <= 1
    /\ (~running /\ loop_commits_after_stop = 1) => ~LoopInCanvas

C6_Witness ==
    /\ ~running
    /\ loop_commits_after_stop = 1
    /\ loop_pc = "exited"

(* C7: while in ORDER_INFO (the tick not being in the middle of its own    *)
(* transition), scroll_position is in [0, scrollLimit) for the active      *)
(* screen, scrollLimit = len(screens[screen_index]) + 128 + 156.           *)
C7_ScrollInRange ==
    (display_state = ORDER_INFO /\ screens # <<>> /\ IndexOk /\ ~MidTransition) =>
        /\ 0 <= scroll_position
        /\ scroll_position <
              Len(screens[screen_index + 1]) + DeviceWidth + ScrollPadding

RECURSIVE SumOfQuantities(_, _)
SumOfQuantities(items, n) ==
    IF n = 0 THEN 0 ELSE items[n].quantity + SumOfQuantities(items, n - 1)

ExpectedEntry(data, i) ==
    IF i = 1 THEN "Order " \o data.name
    ELSE IF i = 2 THEN "Total: " \o data.total_price \o " " \o data.currency
    ELSE IF i = 3
         THEN "Items: " \o ToString(SumOfQuantities(data.line_items,
                                                    Len(data.line_items)))
    ELSE IF i = 4 THEN "Customer:\n" \o data.customer.first_name
    ELSE "Product:\n" \o data.line_items[i - 4].name

RECURSIVE EntriesText(_, _, _)
EntriesText(data, i, n) ==
    IF i = n THEN ExpectedEntry(data, i)
    ELSE ExpectedEntry(data, i) \o "\n" \o EntriesText(data, i + 1, n)

RECURSIVE ScreensText(_, _)
ScreensText(scr, k) ==
    IF k = Len(scr) THEN scr[k] ELSE scr[k] \o "\n" \o ScreensText(scr, k + 1)

C9_ScreensPairEntries ==
    b_pc = "return" =>
        LET n == 4 + Len(b_data.line_items)
        IN /\ Len(b_screens) = (n + 1) \div 2
           /\ \A k \in 1..Len(b_screens) :
                 b_screens[k] =
                    IF 2 * k <= n
                    THEN ExpectedEntry(b_data, 2 * k - 1) \o "\n"
                            \o ExpectedEntry(b_data, 2 * k)
                    ELSE ExpectedEntry(b_data, 2 * k - 1)
           /\ ScreensText(b_screens, 1) = EntriesText(b_data, 1, n)
           /\ (Len(b_data.line_items) = 0 => Len(b_screens) = 2)

(* An order with three line items has been built: 7 entries, 4 screens,    *)
(* the last one a single Product entry.                                    *)
C9_Witness ==
    /\ b_pc = "return"
    /\ Len(b_data.line_items) = 3
    /\ Len(b_screens) = 4
    /\ b_screens[4] = "Product:\n" \o b_data.line_items[3].name

(* C10: every step in which cycles_remaining decreases is the wrap of an   *)
(* advance that started from the last screen (screen_index = len(screens)  *)
(* - 1): it sets screen_index to 0 and decreases cycles_remaining by 1.    *)
C10_DecrementOnlyOnWrap ==
    [][cycles_remaining' < cycles_remaining =>
          /\ loop_pc = "l147"
          /\ from_index = Len(screens) - 1
          /\ screen_index' = 0
          /\ cycles_remaining' = cycles_remaining - 1]_vars

(* C11: once set_new_order has set state_start_time (line 192), the        *)
(* session leaves CELEBRATION only for ORDER_INFO and only when more than  *)
(* 3 s have passed since then, and it is not in CELEBRATION any more once  *)
(* 3 s and one tick of 100 ms have passed.                                 *)
C11_CelebrationLastsThreeSeconds ==
    /\ []((display_state = CELEBRATION /\ h_pc # "s192")
            => state_elapsed <= CelebrationDuration + TickSleep)
    /\ [][(display_state = CELEBRATION /\ display_state' # CELEBRATION
             /\ h_pc # "s192")
            => /\ display_state' = ORDER_INFO
               /\ state_elapsed > CelebrationDuration]_vars

(* C12: set_new_order is never entered with a payload that lacks a         *)
(* required key, and no such payload is ever stored in the display         *)
(* manager.                                                                *)
C12_MalformedPayloadRejected ==
    /\ h_pc \in {"s187", "s188", "s189", "s191", "s192"} => WellFormed(h_data)
    /\ WellFormed(order_data)

(* C13: every NewOrder (set_new_order has returned) is followed by the     *)
(* session being IDLE again, when the threads keep being scheduled, time   *)
(* advances and only finitely many requests arrive.                        *)
C13_EventuallyIdle == (h_pc = "h315") ~> (display_state = IDLE)

(* C14: no step of show_lightning_animation changes display_state,         *)
(* state_start_time, screens, screen_index, cycles_remaining or            *)
(* scroll_position, whatever state the session is in.                      *)
C14_AlertLeavesSession ==
    [][(h_pc \in AlertPcs /\ h_pc' # h_pc)
          => UNCHANGED <<display_state, state_elapsed, screens, screen_index,
                         cycles_remaining, scroll_position>>]_vars

(* An alert animation has drawn its frames while an order was scrolling.   *)
C14_Witness ==
    /\ h_pc = "a180"
    /\ display_state = ORDER_INFO
    /\ screen_index > 1
    /\ scroll_position > 0

(* C15: within a request, set_new_order is entered only from the return of *)
(* show_lightning_animation, which has drawn its frames by then, and the   *)
(* answer 200 (line 315) is reached only from the return of set_new_order  *)
(* (line 192); the handler takes no new request before it has answered.    *)
C15_AlertThenOrderThenAck ==
    [][/\ (h_pc' = "s187" /\ h_pc # "s187")
            => (h_pc \in {"a169", "a180"} /\ ~first_frame)
       /\ (h_pc' = "h315" /\ h_pc # "h315") => h_pc = "s192"
       /\ (h_pc' = "idle" /\ h_pc # "idle") => h_pc \in {"h315", "h500"}
       /\ (h_pc' \in AlertPcs /\ h_pc \notin AlertPcs) => h_pc = "idle"]_vars

(* A request has been answered 200 after its animation and its             *)
(* set_new_order, and the order is on display.                             *)
C15_Witness ==
    /\ h_pc = "h315"
    /\ order_data = h_data
    /\ h_data \in Orders
    /\ display_state = CELEBRATION

(* C16: in ORDER_INFO with screen_index <= 1 scroll_position is 0, and no  *)
(* step taken there changes it.                                            *)
C16_StaticScreensKeepZero ==
    /\ []((display_state = ORDER_INFO /\ screen_index <= 1)
             => scroll_position = 0)
    /\ [][(display_state = ORDER_INFO /\ screen_index <= 1
             /\ display_state' = ORDER_INFO /\ screen_index' <= 1)
            => scroll_position' = scroll_position]_vars

(* C17: a step of a render tick taken in IDLE (the tail of the tick that   *)
(* entered IDLE, line 152, apart) changes none of display_state,           *)
(* state_start_time, screens, screen_index, cycles_remaining and           *)
(* scroll_position, and IDLE is left only by set_new_order's line 191,     *)
(* for CELEBRATION.                                                        *)
C17_IdleStable ==
    [][/\ (display_state = IDLE /\ loop_pc' # loop_pc /\ loop_pc # "l152")
            => UNCHANGED <<display_state, state_elapsed, screens, screen_index,
                           cycles_remaining, scroll_position>>
       /\ (display_state = IDLE /\ display_state' # IDLE)
            => (h_pc = "s191" /\ display_state' = CELEBRATION)]_vars

(* An idle tick has drawn its blank frame after an order was shown and     *)
(* time has passed since.                                                  *)
C17_Witness ==
    /\ display_state = IDLE
    /\ loop_pc = "commit"
    /\ wraps_since_order = OrderCycles
    /\ h_pc = "idle"
    /\ state_elapsed > 0

(* C18: where the right operand of line 143 is evaluated it is false       *)
(* (scroll_position < scroll_limit + max_width), and every advance of      *)
(* screen_index (line 144) is taken more than 8 s after state_start_time.  *)
C18_AdvanceOnlyByTimeout ==
    /\ [](loop_pc = "l143b" => scroll_position < scroll_limit + max_width)
    /\ [][screen_index' = screen_index + 1
            => state_elapsed > ScreenTimeout]_vars

(* C19: whenever the state is CELEBRATION or ORDER_INFO, screens is the    *)
(* complete list of screens of one order and has at least 2 screens; in    *)
(* particular line 129 never finds the list empty in ORDER_INFO.           *)
OrderScreens == {create_order_screens(o) : o \in Orders}

C19_ScreensCompleteWhileShown ==
    /\ display_state \in {CELEBRATION, ORDER_INFO}
          => /\ Len(screens) >= 2
             /\ screens \in OrderScreens
    /\ (loop_pc = "l129" /\ display_state = ORDER_INFO) => screens # <<>>

(* The render loop tests the list at line 129 while set_new_order has      *)
(* replaced it (line 188) and not yet left ORDER_INFO (line 191).          *)
C19_Witness ==
    /\ display_state = ORDER_INFO
    /\ loop_pc = "l129"
    /\ h_pc = "s189"
    /\ screens = create_order_screens(h_data)
    /\ order_data = h_data

====
